---- MODULE Spec2Model ----
(***************************************************************************)
(* Model of scripts/reddit_scraper.py: the incremental, deduplicating      *)
(* ingestion of posts into the master CSV file and the per-run backup.     *)
(*                                                                         *)
(* An id travels in three forms: the string post.id the source returns,    *)
(* the text of a cell of the CSV file, and the value of a cell of a pandas *)
(* DataFrame.  Text is a sequence of characters; a DataFrame cell is       *)
(* tagged with its Python type, because pd.read_csv infers the dtype of a  *)
(* column from its text, and neither a set of ints nor drop_duplicates     *)
(* takes an int for the string of the same digits.                         *)
(*                                                                         *)
(* Of the other fields a record keeps its score and its scraped_at.  The   *)
(* stamp scraped_at is the number of the run that scraped the record (the  *)
(* stamps of two runs differ); 0 stands for 'unknown'.  Both are written   *)
(* and read back unchanged.                                                *)
(*                                                                         *)
(* to_csv opens the master file, which truncates it, and then writes the   *)
(* header and the rows; the model writes the rows one at a time, so that   *)
(* an interruption leaves a file of no bytes, the header alone, or the     *)
(* header and the first rows of the new version.                           *)
(***************************************************************************)
EXTENDS Integers, Sequences, FiniteSets

\* ------------------------------------------------------------------ bounds

\* Runs of the script that a behaviour holds.
MaxRuns == 3
\* Posts one listing yields (the source may return fewer than POST_LIMIT).
MaxPosts == 2
\* Seconds of wall-clock time that pass in a behaviour.
MaxClock == 1
\* Rows of the master and of the delta handed to save_posts directly.
MaxMaster == 1
MaxDelta == 2

\* SUBREDDITS = ['depression', 'mentalhealth']
NumSubreddits == 2

\* ------------------------------------------------------------ cell values

DigitChars == <<"0", "1", "2", "3", "4", "5", "6", "7", "8", "9">>

IsDigit(c) == \E i \in 1..10 : DigitChars[i] = c

DigitValue(c) == (CHOOSE i \in 1..10 : DigitChars[i] = c) - 1

\* A Python str and a Python int, as values of a DataFrame cell.
StrV(s) == [t |-> "str", s |-> s, n |-> 0]
IntV(n) == [t |-> "int", s |-> <<>>, n |-> n]

\* Text that the C parser of read_csv reads as an integer.
IsDigits(s) == Len(s) > 0 /\ \A i \in 1..Len(s) : IsDigit(s[i])

RECURSIVE ParseInt(_)
ParseInt(s) ==
    IF s = <<>> THEN 0
    ELSE ParseInt(SubSeq(s, 1, Len(s) - 1)) * 10 + DigitValue(s[Len(s)])

RECURSIVE FormatInt(_)
FormatInt(n) ==
    IF n < 10 THEN <<DigitChars[n + 1]>>
    ELSE Append(FormatInt(n \div 10), DigitChars[(n % 10) + 1])

\* to_csv writes str(value) of a cell.
FormatCell(v) == IF v.t = "int" THEN FormatInt(v.n) ELSE v.s

\* ------------------------------------------------------------- DataFrames

\* pd.DataFrame(): no column, no row.
EmptyFrame == [scraped_col |-> FALSE, rows |-> <<>>]

IsEmpty(df) == df.rows = <<>>

Ids(rows) == {rows[i].id : i \in 1..Len(rows)}

\* to_csv(index=False): one line of text per row, in the frame's order.
FormatRow(r) == [id |-> FormatCell(r.id), score |-> r.score, scraped_at |-> r.scraped_at]

FormatRows(rows) == [i \in 1..Len(rows) |-> FormatRow(rows[i])]

\* pd.read_csv: the id column is int64 when every cell of it is an integer
\* literal and object (str) otherwise.  The ids of the model hold digits and
\* letters only, and no NA token.
ReadCsv(rows) ==
    LET numeric == \A i \in 1..Len(rows) : IsDigits(rows[i].id)
    IN  [scraped_col |-> TRUE,
         rows |-> [i \in 1..Len(rows) |->
                     [id |-> IF numeric THEN IntV(ParseInt(rows[i].id))
                                        ELSE StrV(rows[i].id),
                      score |-> rows[i].score,
                      scraped_at |-> rows[i].scraped_at]]]

\* pd.concat([a, b], ignore_index=True)
Concat(a, b) == [scraped_col |-> a.scraped_col \/ b.scraped_col,
                 rows |-> a.rows \o b.rows]

\* drop_duplicates as keep='last' would have it: the variant C5 is checked
\* against.
RECURSIVE DropDuplicatesKeepLast(_)
DropDuplicatesKeepLast(rows) ==
    IF rows = <<>> THEN <<>>
    ELSE LET rest == DropDuplicatesKeepLast(Tail(rows))
         IN  IF Head(rows).id \in Ids(rest) THEN rest ELSE <<Head(rows)>> \o rest

\* drop_duplicates(subset=['id'], keep='first')
RECURSIVE DropDuplicates(_)
DropDuplicates(rows) ==
    IF rows = <<>> THEN <<>>
    ELSE LET front == DropDuplicates(SubSeq(rows, 1, Len(rows) - 1))
             last == rows[Len(rows)]
         IN  IF last.id \in Ids(front) THEN front ELSE Append(front, last)

\* existing_posts['scraped_at'] = 'unknown' (the stamp 0), when the column is missing
WithScrapedAt(df) ==
    IF df.scraped_col THEN df
    ELSE [scraped_col |-> TRUE,
          rows |-> [i \in 1..Len(df.rows) |-> [df.rows[i] EXCEPT !.scraped_at = 0]]]

\* The combined frame of save_posts, before it is written.
Merge(existing, all) ==
    LET combined == IF ~IsEmpty(existing) THEN Concat(WithScrapedAt(existing), all)
                    ELSE all
    IN  [combined EXCEPT !.rows = DropDuplicates(combined.rows)]

\* ------------------------------------------------------------- the source

\* post.id values the source can return: base-36 ids, one of digits only and
\* one with a letter.
SourceIds == {<<"1", "0">>, <<"a">>}

SourceScores == {5}

Posts == [id : SourceIds, score : SourceScores]

Times == 0..MaxClock

\* ------------------------------------------------------------------ state

VARIABLES
    file,                 \* reddit_posts_master.csv: [exists, header, rows of text]
    backups,              \* reddit_posts_hot_<timestamp>.csv, by timestamp
    now,                  \* datetime.now(), in whole seconds
    pc,                   \* where the script is
    run,                  \* runs started so far
    existing_posts,       \* __main__: the loaded master frame
    existing_ids,         \* __main__: the set of known ids
    new_posts,            \* __main__: the delta of this run
    total_new_posts,      \* __main__
    sub,                  \* index into SUBREDDITS of the listing being read
    records,              \* scrape_subreddit: records
    skipped_posts_count,  \* scrape_subreddit
    combined_posts,       \* save_posts: the frame being written
    upstream,             \* what each listing holds, when it is fixed
    old_file,             \* the master file as the running script found it
    accepted              \* the ids this run accepted, in the order it did

vars == <<file, backups, now, pc, run, existing_posts, existing_ids, new_posts,
          total_new_posts, sub, records, skipped_posts_count, combined_posts,
          upstream, old_file, accepted>>

memory == <<existing_posts, existing_ids, new_posts, total_new_posts, sub,
            records, skipped_posts_count, combined_posts>>

NoFile == [exists |-> FALSE, header |-> FALSE, rows |-> <<>>]

NoListing == [s \in 1..NumSubreddits |-> <<>>]

Init ==
    /\ file = NoFile
    /\ backups = [t \in Times |-> NoFile]
    /\ now = 0
    /\ pc = "idle"
    /\ run = 0
    /\ existing_posts = EmptyFrame
    /\ existing_ids = {}
    /\ new_posts = EmptyFrame
    /\ total_new_posts = 0
    /\ sub = 1
    /\ records = <<>>
    /\ skipped_posts_count = 0
    /\ combined_posts = EmptyFrame
    /\ upstream = NoListing
    /\ old_file = NoFile
    /\ accepted = <<>>

\* The process is gone: nothing of its memory remains, only the files.
ProcessEnds ==
    /\ pc' = "idle"
    /\ existing_posts' = EmptyFrame
    /\ existing_ids' = {}
    /\ new_posts' = EmptyFrame
    /\ total_new_posts' = 0
    /\ sub' = 1
    /\ records' = <<>>
    /\ skipped_posts_count' = 0
    /\ combined_posts' = EmptyFrame
    /\ old_file' = NoFile
    /\ accepted' = <<>>

\* The clock advances between runs.
Tick ==
    /\ pc = "idle"
    /\ now < MaxClock
    /\ now' = now + 1
    /\ UNCHANGED <<file, backups, pc, run, memory, upstream, old_file, accepted>>

\* ------------------------------------------------------ load_existing_posts

\* load_existing_posts and the set-up of __main__ before the loop.
Load ==
    /\ pc = "idle"
    /\ run < MaxRuns
    /\ file.exists => file.header
    /\ run' = run + 1
    /\ existing_posts' = IF file.exists THEN ReadCsv(file.rows) ELSE EmptyFrame
    /\ existing_ids' = Ids(existing_posts'.rows)
    /\ new_posts' = EmptyFrame
    /\ total_new_posts' = 0
    /\ sub' = 1
    /\ records' = <<>>
    /\ skipped_posts_count' = 0
    /\ combined_posts' = EmptyFrame
    /\ old_file' = file
    /\ accepted' = <<>>
    /\ pc' = "scrape"
    /\ UNCHANGED <<file, backups, now, upstream>>

\* pd.read_csv raises EmptyDataError on a file of no bytes: the run ends.
\* (A file that holds the header alone is read as a frame of no rows.)
LoadError ==
    /\ pc = "idle"
    /\ run < MaxRuns
    /\ file.exists /\ ~file.header
    /\ run' = run + 1
    /\ UNCHANGED <<file, backups, now, pc, memory, upstream, old_file, accepted>>

\* --------------------------------------------------------- scrape_subreddit

\* A list that takes a new record in front: the variant C6 is checked against.
AppendRecordInFront(recs, rec) == <<rec>> \o recs

\* records.append({...}): the new record goes behind the earlier ones.
AppendRecord(recs, rec) == Append(recs, rec)

\* One iteration of "for post in posts".
ScrapePost(post) ==
    /\ pc = "scrape"
    /\ IF StrV(post.id) \in existing_ids
       THEN /\ skipped_posts_count' = skipped_posts_count + 1
            /\ UNCHANGED <<records, accepted>>
       ELSE /\ records' = AppendRecord(records,
                              [id |-> StrV(post.id), score |-> post.score,
                               scraped_at |-> run])
            /\ accepted' = Append(accepted, post.id)
            /\ UNCHANGED skipped_posts_count
    /\ UNCHANGED <<file, backups, now, pc, run, existing_posts, existing_ids,
                   new_posts, total_new_posts, sub, combined_posts, upstream,
                   old_file>>

\* The listing is exhausted: scrape_subreddit returns the frame of its
\* records and __main__ takes it into new_posts and existing_ids, then moves
\* to the next subreddit or, behind the last one, to saving (or, with no new
\* post, to its last print).
ScrapeReturn ==
    /\ pc = "scrape"
    /\ LET df == [scraped_col |-> records # <<>>, rows |-> records]
           grown == ~IsEmpty(df)
           total == IF grown THEN total_new_posts + Len(df.rows) ELSE total_new_posts
       IN  /\ new_posts' = IF grown THEN Concat(new_posts, df) ELSE new_posts
           /\ total_new_posts' = total
           /\ existing_ids' = IF grown THEN existing_ids \cup Ids(df.rows)
                                        ELSE existing_ids
           /\ IF sub < NumSubreddits
              THEN /\ sub' = sub + 1
                   /\ UNCHANGED pc
              ELSE /\ UNCHANGED sub
                   /\ pc' = IF total > 0 THEN "save" ELSE "done"
    /\ records' = <<>>
    /\ skipped_posts_count' = 0
    /\ UNCHANGED <<file, backups, now, run, existing_posts, combined_posts,
                   upstream, old_file, accepted>>

\* The source raises while a listing is read: nothing catches the exception,
\* it leaves scrape_subreddit and __main__, and the process ends.
FetchError ==
    /\ pc = "scrape"
    /\ ProcessEnds
    /\ UNCHANGED <<file, backups, now, run, upstream>>

\* --------------------------------------------------------------- save_posts

\* save_posts up to the open() of to_csv(master_path): the frames are merged
\* and the master file is opened for writing, which truncates it.
SaveOpen ==
    /\ pc = "save"
    /\ combined_posts' = Merge(existing_posts, new_posts)
    /\ file' = [exists |-> TRUE, header |-> FALSE, rows |-> <<>>]
    /\ pc' = "write"
    /\ UNCHANGED <<backups, now, run, existing_posts, existing_ids, new_posts,
                   total_new_posts, sub, records, skipped_posts_count, upstream,
                   old_file, accepted>>

\* to_csv writes the header line.
WriteHeader ==
    /\ pc = "write"
    /\ ~file.header
    /\ file' = [file EXCEPT !.header = TRUE]
    /\ UNCHANGED <<backups, now, pc, run, memory, upstream, old_file, accepted>>

\* to_csv writes the next row of the combined frame; behind the last row the
\* file is closed.
WriteRow ==
    /\ pc = "write"
    /\ file.header
    /\ Len(file.rows) < Len(combined_posts.rows)
    /\ file' = [file EXCEPT !.rows =
                   Append(@, FormatRow(combined_posts.rows[Len(file.rows) + 1]))]
    /\ pc' = IF Len(file.rows) + 1 = Len(combined_posts.rows) THEN "backup" ELSE "write"
    /\ UNCHANGED <<backups, now, run, memory, upstream, old_file, accepted>>

\* The backup of the delta, named by SORT_BY and the second it is written
\* in; save_posts returns and __main__ prints its summary.
SaveBackup ==
    /\ pc = "backup"
    /\ backups' = IF ~IsEmpty(new_posts)
                  THEN [backups EXCEPT ![now] =
                          [exists |-> TRUE, header |-> TRUE,
                           rows |-> FormatRows(new_posts.rows)]]
                  ELSE backups
    /\ pc' = "done"
    /\ UNCHANGED <<file, now, run, memory, upstream, old_file, accepted>>

\* The process is interrupted while save_posts persists.
Interrupt ==
    /\ pc \in {"write", "backup"}
    /\ ProcessEnds
    /\ UNCHANGED <<file, backups, now, run, upstream>>

\* The script has printed its summary and ends.
Exit ==
    /\ pc = "done"
    /\ ProcessEnds
    /\ UNCHANGED <<file, backups, now, run, upstream>>

\* ----------------------------------------------------------- specifications

\* The source yields one more post, any post, to the loop.
Fetch ==
    /\ Len(records) + skipped_posts_count < MaxPosts
    /\ \E post \in Posts : ScrapePost(post)

\* The script run again and again, the source returning any posts.
Next ==
    \/ Tick
    \/ Load
    \/ LoadError
    \/ Fetch
    \/ ScrapeReturn
    \/ FetchError
    \/ SaveOpen
    \/ WriteHeader
    \/ WriteRow
    \/ SaveBackup
    \/ Interrupt
    \/ Exit

Spec == Init /\ [][Next]_vars

\* The script run again and again against a source that does not change:
\* every run gets the same listings, and every run completes.
SeqsUpTo(S, n) == UNION {[1..k -> S] : k \in 0..n}

InitRerun ==
    /\ file = NoFile
    /\ backups = [t \in Times |-> NoFile]
    /\ now = 0
    /\ pc = "idle"
    /\ run = 0
    /\ existing_posts = EmptyFrame
    /\ existing_ids = {}
    /\ new_posts = EmptyFrame
    /\ total_new_posts = 0
    /\ sub = 1
    /\ records = <<>>
    /\ skipped_posts_count = 0
    /\ combined_posts = EmptyFrame
    /\ upstream \in [1..NumSubreddits -> SeqsUpTo(Posts, MaxPosts)]
    /\ old_file = NoFile
    /\ accepted = <<>>

FetchUpstream ==
    /\ Len(records) + skipped_posts_count < Len(upstream[sub])
    /\ ScrapePost(upstream[sub][Len(records) + skipped_posts_count + 1])

ReturnUpstream ==
    /\ Len(records) + skipped_posts_count = Len(upstream[sub])
    /\ ScrapeReturn

NextRerun ==
    \/ Load
    \/ FetchUpstream
    \/ ReturnUpstream
    \/ SaveOpen
    \/ WriteHeader
    \/ WriteRow
    \/ SaveBackup
    \/ Exit

SpecRerun == InitRerun /\ [][NextRerun]_vars

\* save_posts called on its own, with any master frame and any delta frame.
MergeIds == {IntV(1), IntV(2), StrV(<<"1">>)}

MergeScores == {3, 5, 9}

\* A master frame with or without the scraped_at column (stamp 1, or none).
MasterFrames ==
    {[scraped_col |-> c,
      rows |-> [i \in 1..Len(s) |->
                  [id |-> s[i].id, score |-> s[i].score,
                   scraped_at |-> IF c THEN 1 ELSE 0]]] :
        c \in BOOLEAN, s \in SeqsUpTo([id : MergeIds, score : MergeScores], MaxMaster)}

\* A delta frame, as scrape_subreddit builds it (stamp 2).
DeltaFrames ==
    {[scraped_col |-> s # <<>>,
      rows |-> [i \in 1..Len(s) |->
                  [id |-> s[i].id, score |-> s[i].score, scraped_at |-> 2]]] :
        s \in SeqsUpTo([id : MergeIds, score : MergeScores], MaxDelta)}

InitMerge ==
    /\ file = NoFile
    /\ backups = [t \in Times |-> NoFile]
    /\ now = 0
    /\ pc = "save"
    /\ run = 1
    /\ existing_posts \in MasterFrames
    /\ new_posts \in DeltaFrames
    /\ ~(IsEmpty(existing_posts) /\ IsEmpty(new_posts))
    /\ existing_ids = {}
    /\ total_new_posts = Len(new_posts.rows)
    /\ sub = 1
    /\ records = <<>>
    /\ skipped_posts_count = 0
    /\ combined_posts = EmptyFrame
    /\ upstream = NoListing
    /\ old_file = NoFile
    /\ accepted = <<>>

NextMerge ==
    \/ SaveOpen
    \/ WriteHeader
    \/ WriteRow
    \/ SaveBackup

SpecMerge == InitMerge /\ [][NextMerge]_vars

\* ------------------------------------------------------------------ claims

IsPrefix(a, b) == Len(a) <= Len(b) /\ SubSeq(b, 1, Len(a)) = a

Range(s) == {s[i] : i \in 1..Len(s)}

NoRepeatedId(rows) ==
    \A i, j \in 1..Len(rows) : rows[i].id = rows[j].id => i = j

\* The script has just loaded the master file and has fetched nothing yet.
JustLoaded ==
    /\ pc = "scrape"
    /\ sub = 1
    /\ records = <<>>
    /\ skipped_posts_count = 0
    /\ IsEmpty(new_posts)

\* C1: after any sequence of runs that start from an absent master file, a
\* run that completes leaves a master file in which no two rows have the same
\* id.
C1_MasterIdsUnique == pc = "done" => NoRepeatedId(file.rows)

\* C2: against a source that returns the same posts on every run, with every
\* run completing, each run after the first accepts no post and leaves the
\* master file as it found it.
C2_SecondRunIsNoOp ==
    (pc = "done" /\ run >= 2) => (total_new_posts = 0 /\ file = old_file)

\* C3: when the process is interrupted while save_posts persists, the master
\* file left behind is the file the run found or the complete new version.
C3_CrashSafe ==
    [][(pc \in {"write", "backup"} /\ pc' = "idle")
          => \/ file' = old_file
             \/ file' = [exists |-> TRUE, header |-> TRUE,
                         rows |-> FormatRows(combined_posts.rows)]]_vars

\* C4: a run that completes leaves a master file that starts with the rows of
\* the master file it found, unchanged and in their order, and holds behind
\* them the records the run accepted and nothing else.
C4_MasterGrowsByDelta ==
    pc = "done" =>
        /\ IsPrefix(old_file.rows, file.rows)
        /\ Range(SubSeq(file.rows, Len(old_file.rows) + 1, Len(file.rows)))
              = Range(FormatRows(new_posts.rows))

C6_AcceptanceOrderKept ==
    pc = "done" =>
        \A i, j \in 1..Len(accepted) :
            (/\ i < j
             /\ accepted[i] # accepted[j]
             /\ \A k \in 1..(i - 1) : accepted[k] # accepted[i]
             /\ \A k \in 1..(j - 1) : accepted[k] # accepted[j])
            => \E p, q \in 1..Len(file.rows) :
                  /\ p < q
                  /\ file.rows[p].id = accepted[i] /\ file.rows[p].scraped_at = run
                  /\ file.rows[q].id = accepted[j] /\ file.rows[q].scraped_at = run

\* C6, its case: a run has completed that accepted two different ids, and its
\* master file holds them in that order as rows of this run.
C6_TwoAccepted ==
    /\ pc = "done"
    /\ accepted = <<<<"a">>, <<"1", "0">>>>
    /\ file.exists
    /\ \E p, q \in 1..Len(file.rows) :
          /\ p < q
          /\ file.rows[p] = [id |-> <<"a">>, score |-> 5, scraped_at |-> run]
          /\ file.rows[q] = [id |-> <<"1", "0">>, score |-> 5, scraped_at |-> run]

\* C7: once a run has accepted records from one subreddit, a failure of the
\* source in a later subreddit does not end the run: the script goes on
\* scraping or goes to saving.
C7_FetchErrorDoesNotEndRun ==
    [][(pc = "scrape" /\ ~IsEmpty(new_posts)) => pc' # "idle"]_vars

\* C8: a backup file, once written, keeps its content.
C8_BackupsImmutable ==
    [][\A t \in Times : backups[t].exists => backups'[t] = backups[t]]_vars

\* C9: neither the delta of a run nor a backup file written from a delta
\* holds two records with the same id.
C9_DeltaIdsUnique ==
    /\ NoRepeatedId(new_posts.rows)
    /\ \A t \in Times : NoRepeatedId(backups[t].rows)

\* C10: the known ids that load_existing_posts returns are the id strings of
\* the rows of the master file it read.
C10_LoadedIdsAreWrittenStrings ==
    JustLoaded => existing_ids = {StrV(old_file.rows[i].id) : i \in 1..Len(old_file.rows)}

====
